---- MODULE Spec2Model ----
(***************************************************************************)
(* Model of rprml.core.experiment: Experiment.prototype_run,               *)
(* Experiment.full_run, the worker function _job and                       *)
(* Experiment.construct_simulation_identifier over the configuration      *)
(* dataclass rprml.core.simulation.Simulation.                             *)
(*                                                                         *)
(* The orchestrator is one sequential process (pc); every job handed to a *)
(* pool by starmap_async is an independent worker step that may finish in *)
(* any order.  A multiprocessing pool is abstracted to what full_run      *)
(* observes of it: it is open, closed or joined, and the async result of  *)
(* its batch is ready once every job of the batch has finished.  The size *)
(* of the worker group (n_processes_per_device) only restricts which      *)
(* completion orders occur, so every order is allowed here.               *)
(***************************************************************************)
EXTENDS Integers, Sequences, FiniteSets, TLC

\* ------------------------------------------------------------------ bounds
\* Longest sweep, longest epoch list, largest n_runs_per_device, longest
\* devices_list, and the most jobs one configuration submits (runs * devices).
MaxConfigs == 2
MaxEpochLen == 2
MaxRuns == 2
MaxDevices == 2
MaxJobs == 4

\* ------------------------------------------------- values of dataclass fields
\* A field value is a record [kind, v]: kind "num" is a numbers.Number, every
\* other kind is not.  v is the printed form of the value.
Num(v) == [kind |-> "num", v |-> v]
Val(kind, v) == [kind |-> kind, v |-> v]

IntRepr == <<"0", "1", "2", "3", "4", "5", "6", "7", "8", "9", "10", "11",
             "12", "13", "14", "15", "16">>
IntValue(n) == Num(IntRepr[n + 1])

\* isinstance(value, numbers.Number)
IsNumber(value) == value.kind = "num"

\* str(value): a str is returned as it is, any other object by its printed form
\* (str(None) = 'None', str(torch.device('cpu')) = 'cpu', str({}) = '{}').
Str(value) == Val("str", value.v)

\* --------------------------------------------------- configuration classes
\* Simulation is the dataclass of simulation.py; NoisySimulation and
\* PartialSimulation stand for user dataclasses deriving from it, the second
\* declaring a field that its instances do not carry.
Classes == {"Simulation", "NoisySimulation", "PartialSimulation", "object"}

is_dataclass(cls) == cls \in {"Simulation", "NoisySimulation", "PartialSimulation"}

Bases(cls) ==
    CASE cls = "Simulation" -> <<"object">>
      [] cls = "NoisySimulation" -> <<"Simulation">>
      [] cls = "PartialSimulation" -> <<"Simulation">>
      [] OTHER -> <<>>

\* cls.__annotations__: the names annotated in the class body.
Annotations(cls) ==
    CASE cls = "Simulation" ->
            {"seed", "device", "model_factory", "data", "n_train", "n_valid",
             "loss_function", "batch_size", "_learning_rate",
             "simulation_name", "data_factory_kwargs", "model_factory_kwargs"}
      [] cls = "NoisySimulation" -> {"noise_level", "batch_size"}
      [] cls = "PartialSimulation" -> {"warmup"}
      [] OTHER -> {}

\* ------------------------------------------------------ simulation factories
Factories == {"fA", "fB", "fPartial"}

FactoryClass(f) ==
    CASE f = "fA" -> "Simulation"
      [] f = "fB" -> "NoisySimulation"
      [] f = "fPartial" -> "PartialSimulation"

\* simulation_factory(seed, device): the instance a factory builds.  ran tells
\* whether run() was called on it.
Instance(f, s, d) == [factory |-> f, seed |-> s, device |-> d, ran |-> FALSE]

Absent == Val("absent", "")

\* simulation.__getattribute__(key): the current value of the attribute, Absent
\* when the instance has no such attribute (AttributeError).
GetAttribute(simulation, key) ==
    LET f == simulation.factory IN
    CASE key = "seed" -> IntValue(simulation.seed)
      [] key = "device" -> Val("device", simulation.device)
      [] key = "model_factory" -> Val("callable", "<function make_model>")
      [] key = "data" -> Val("str", IF f = "fA" THEN "mnist" ELSE "gaussian")
      [] key = "n_train" -> Num("100")
      [] key = "n_valid" -> Num("50")
      [] key = "loss_function" -> Val("callable", "CrossEntropyLoss()")
      [] key = "batch_size" -> Num(IF f = "fA" THEN "32" ELSE "64")
      [] key = "_learning_rate" -> Num(IF f = "fA" THEN "0.1" ELSE "0.01")
      [] key = "learning_rate" -> Num(IF f = "fA" THEN "0.1" ELSE "0.01")
      [] key = "simulation_name" -> Val("str", "Simulation")
      [] key = "data_factory_kwargs" -> Val("dict", "{}")
      [] key = "model_factory_kwargs" -> Val("dict", "{}")
      [] key = "noise_level" ->
            IF FactoryClass(f) = "NoisySimulation" THEN Num("0.5") ELSE Absent
      [] OTHER -> Absent

\* ------------------------------------------- construct_simulation_identifier
\* append_identifiers(cls): the keys collected from cls and its bases.
RECURSIVE append_identifiers(_)
append_identifiers(cls) ==
    IF is_dataclass(cls)
    THEN Annotations(cls) \cup
         UNION { append_identifiers(Bases(cls)[b]) : b \in DOMAIN Bases(cls) }
    ELSE {}

\* The value stored under a key: the attribute, as a string unless a number.
NormalizedValue(simulation, key) ==
    LET value == GetAttribute(simulation, key) IN
    IF IsNumber(value) THEN value ELSE Str(value)

\* Mutant of PublicKey: the private name of the learning rate is kept.
PublicKeyPrivate(key) == key

\* The key under which a field is returned.
PublicKey(key) == IF key = "_learning_rate" THEN "learning_rate" ELSE key

\* The declared field whose value is returned under a key.
SourceKey(keys, key) ==
    IF key = "learning_rate" /\ "_learning_rate" \in keys
    THEN "_learning_rate" ELSE key

\* The field names collected for an instance of the simulation's class.
DeclaredKeys(simulation) == append_identifiers(FactoryClass(simulation.factory))

\* Whether reading a declared field raises AttributeError.
IdentifierRaises(simulation) ==
    \E key \in DeclaredKeys(simulation) : GetAttribute(simulation, key) = Absent

\* The HashableDict returned (when no declared field is absent).
construct_simulation_identifier(simulation) ==
    LET keys == DeclaredKeys(simulation) IN
    [key \in {PublicKey(x) : x \in keys} |->
         NormalizedValue(simulation, SourceKey(keys, key))]

\* handle_simulation_output: the default handler returns the history.
handle_simulation_output(simulation_history) == simulation_history

\* ------------------------------------------------------------- the inputs
\* Sweeps (self.simulation_factories): the first n factories of a pattern.
SweepPatterns == {"distinct", "same", "partial"}

FactoryAt(pattern, i) ==
    CASE pattern = "distinct" -> IF i % 2 = 1 THEN "fA" ELSE "fB"
      [] pattern = "same" -> "fA"
      [] pattern = "partial" -> IF i = 2 THEN "fPartial" ELSE "fA"

Sweeps ==
    { [i \in 1..n |-> FactoryAt(pattern, i)] :
          n \in 0..MaxConfigs, pattern \in SweepPatterns }

\* epochs_per_simulation: an int, or a list of ints of any length from 0.
EpochValues == <<5, 2, 7, 3, 4, 6>>

EpochArguments ==
    {<<"int", 5>>} \cup
    { <<"list", [i \in 1..n |-> EpochValues[i]]>> : n \in 0..MaxEpochLen }

\* devices_list: distinct devices, or the same device at every position.
DevicePatterns == {"mixed", "same"}

DeviceAt(pattern, i) ==
    CASE pattern = "mixed" -> IF i % 2 = 1 THEN "cuda:0" ELSE "cpu"
      [] pattern = "same" -> "cuda:1"

DeviceLists ==
    { [i \in 1..n |-> DeviceAt(pattern, i)] :
          n \in 0..MaxDevices, pattern \in DevicePatterns }

\* The seed and device arguments of prototype_run.
PrototypeSeeds == {0, 3}
PrototypeDevices == {"cpu", "cuda:0"}

\* --------------------------------------------------------------- the state
VARIABLES
    mode,                  \* "prototype" or "full": the method invoked
    simulation_factories,  \* self.simulation_factories
    epochs_argument,       \* epochs_per_simulation as the caller passed it
    epochs_per_simulation, \* the argument, then the list of lines 85 and 105
    n_runs_per_device,     \* full_run argument
    devices_list,          \* full_run argument
    seed,                  \* prototype_run argument
    device,                \* prototype_run argument
    pc,                    \* position of the orchestrator
    k,                     \* configurations taken from the zip so far
    epochs,                \* loop variable: epoch count of the configuration
    experiment_id,         \* full_run counter
    pools,                 \* full_run: the pools of this configuration
    results,               \* full_run: async results, one per pool submitted
    collected,             \* full_run: pools whose collection is finished
    all_outputs,           \* full_run: job results retrieved so far
    processed_outputs,     \* full_run: handled outputs
    simulation,            \* the instance the orchestrator holds
    simulation_identifier, \* the identifier of the configuration
    proto_results,         \* prototype_run: the results dictionary
    pool_state,            \* every pool ever created -> open/closed/joined
    jobs,                  \* every pool submitted to -> its batch of jobs
    get_calls,             \* every pool -> number of result.get() calls
    identifier_calls,      \* instances given to construct_simulation_identifier
    disk,                  \* save_to_disk calls: <<path, payload>> in order
    handler_calls,         \* calls of handle_simulation_output so far
    overtaken,             \* some job finished before one submitted before it
    error                  \* the exception that left the method, or "none"

vars == <<mode, simulation_factories, epochs_argument, epochs_per_simulation, n_runs_per_device,
          devices_list, seed, device, pc, k, epochs, experiment_id, pools,
          results, collected, all_outputs, processed_outputs, simulation,
          simulation_identifier, proto_results, pool_state, jobs, get_calls,
          identifier_calls, disk, handler_calls, overtaken, error>>

inputs == <<mode, simulation_factories, epochs_argument, n_runs_per_device,
            devices_list, seed, device>>

full_locals == <<pools, results, collected, all_outputs, processed_outputs>>

pool_vars == <<pool_state, jobs, get_calls>>

NoSimulation == [factory |-> "none", seed |-> 0, device |-> "none", ran |-> FALSE]

NoIdentifier == <<>>

Init ==
    /\ mode \in {"prototype", "full"}
    /\ simulation_factories \in Sweeps
    /\ epochs_argument \in EpochArguments
    /\ epochs_per_simulation = epochs_argument
    /\ IF mode = "full"
       THEN /\ n_runs_per_device \in 0..MaxRuns
            /\ devices_list \in DeviceLists
            /\ n_runs_per_device * Len(devices_list) <= MaxJobs
            /\ seed = 0
            /\ device = "cpu"
       ELSE /\ n_runs_per_device = 0
            /\ devices_list = <<>>
            /\ seed \in PrototypeSeeds
            /\ device \in PrototypeDevices
    /\ pc = "start"
    /\ k = 0
    /\ epochs = 0
    /\ experiment_id = 0
    /\ pools = <<>>
    /\ results = <<>>
    /\ collected = 0
    /\ all_outputs = <<>>
    /\ processed_outputs = <<>>
    /\ simulation = NoSimulation
    /\ simulation_identifier = NoIdentifier
    /\ proto_results = <<>>
    /\ pool_state = <<>>
    /\ jobs = <<>>
    /\ get_calls = <<>>
    /\ identifier_calls = <<>>
    /\ disk = <<>>
    /\ handler_calls = 0
    /\ overtaken = FALSE
    /\ error = "none"

\* ------------------------------------------------------------ shared steps
Min(a, b) == IF a < b THEN a ELSE b

\* isinstance(epochs_per_simulation, int): an int becomes a one-element list.
NormalizedEpochs(arg) == IF arg[1] = "int" THEN <<arg[2]>> ELSE arg[2]

\* zip(self.simulation_factories, cycle(epochs_per_simulation)) has an item at
\* position n (from 0) when the factories have one and the cycle is not empty.
ZipHasNext(n) ==
    n < Len(simulation_factories) /\ Len(epochs_per_simulation) > 0

\* Mutant of CycleAt: the epoch sequence is never advanced.
CycleAtFirst(n) == epochs_per_simulation[1]

\* The item of cycle(epochs_per_simulation) at position n (from 0).
CycleAt(n) == epochs_per_simulation[(n % Len(epochs_per_simulation)) + 1]

\* The factory of the configuration being processed.
simulation_factory == simulation_factories[k]

Ended == pc \in {"returned", "raised"}

\* ------------------------------------------------------------- the worker
\* What run() records for an instance built from (factory, seed, device).
History(f, s, d, e) == [factory |-> f, seed |-> s, device |-> d, epochs |-> e]

\* _job: the triple a job returns.
JobResult(job) ==
    <<History(job.factory, job.seed, job.device, job.epochs), job.seed, job.device>>

\* Job i of the batch of pool id finishes while a job submitted before it in
\* the same batch is still running.
Overtakes(id, i) == \E j \in 1..(i - 1) : jobs[id][j].state = "pending"

\* A worker finishes job i of the batch of pool id: _job returns, or raises in
\* the factory call or in run().  Workers are followed while the method runs.
JobFinish(id, i, ok) ==
    /\ ~Ended
    /\ id \in DOMAIN jobs
    /\ pool_state[id] = "open"
    /\ jobs[id][i].state = "pending"
    /\ jobs' = [jobs EXCEPT ![id][i].state = IF ok THEN "done" ELSE "failed"]
    /\ overtaken' = (overtaken \/ Overtakes(id, i))
    /\ UNCHANGED <<inputs, handler_calls, epochs_per_simulation, pc, k, epochs, experiment_id,
                   full_locals, simulation, simulation_identifier,
                   proto_results, pool_state, get_calls, identifier_calls,
                   disk, error>>

\* --------------------------------------------------------------- full_run
\* Lines 104-110: normalise the epochs argument, experiment_id = 0.
FullStart ==
    /\ mode = "full" /\ pc = "start"
    /\ epochs_per_simulation' = NormalizedEpochs(epochs_per_simulation)
    /\ experiment_id' = 0
    /\ pc' = "f_loop"
    /\ UNCHANGED <<inputs, overtaken, handler_calls, k, epochs, full_locals, simulation,
                   simulation_identifier, proto_results, pool_vars,
                   identifier_calls, disk, error>>

\* Mutant of FullLoop: the pools list is created once, before the loop.
FullLoopKeepPools ==
    /\ pc = "f_loop"
    /\ IF ZipHasNext(k)
       THEN /\ k' = k + 1
            /\ epochs' = CycleAt(k)
            /\ pc' = "f_pools"
       ELSE /\ pc' = "returned"
            /\ UNCHANGED <<k, epochs>>
    /\ UNCHANGED <<inputs, overtaken, handler_calls, epochs_per_simulation,
                   experiment_id, full_locals, simulation,
                   simulation_identifier, proto_results, pool_vars,
                   identifier_calls, disk, error>>

\* Line 111: the next (simulation_factory, epochs) of the zip, or the end.
FullLoop ==
    /\ pc = "f_loop"
    /\ IF ZipHasNext(k)
       THEN /\ k' = k + 1
            /\ epochs' = CycleAt(k)
            /\ pools' = <<>>
            /\ pc' = "f_pools"
       ELSE /\ pc' = "returned"
            /\ UNCHANGED <<k, epochs, pools>>
    /\ UNCHANGED <<inputs, overtaken, handler_calls, epochs_per_simulation, experiment_id, results,
                   collected, all_outputs, processed_outputs, simulation,
                   simulation_identifier, proto_results, pool_vars,
                   identifier_calls, disk, error>>

\* The pool created for position p (from 0) of devices_list.
NewPool(p) == <<k, p>>

\* Lines 114-116: one pool per device; then results = [].
CreatePool ==
    /\ pc = "f_pools"
    /\ IF Len(pools) < Len(devices_list)
       THEN /\ pools' = Append(pools, NewPool(Len(pools)))
            /\ pool_state' = (NewPool(Len(pools)) :> "open") @@ pool_state
            /\ get_calls' = (NewPool(Len(pools)) :> 0) @@ get_calls
            /\ UNCHANGED <<pc, results>>
       ELSE /\ results' = <<>>
            /\ pc' = "f_submit"
            /\ UNCHANGED <<pools, pool_state, get_calls>>
    /\ UNCHANGED <<inputs, overtaken, handler_calls, epochs_per_simulation, k, epochs, experiment_id,
                   collected, all_outputs, processed_outputs, simulation,
                   simulation_identifier, proto_results, jobs, identifier_calls, disk, error>>

\* Mutant of JobSeed: the run index is not offset by a block of R seeds.
JobSeedNoStride(pool_id, i) == pool_id + i

\* Line 125: the seed of run i (from 0) of the pool at position pool_id.
JobSeed(pool_id, i) == pool_id * n_runs_per_device + i

\* Lines 121-127: the argument tuples of the pool at position pool_id.
JobArgs(pool_id) ==
    [i \in 1..n_runs_per_device |->
        [factory |-> simulation_factory,
         seed |-> JobSeed(pool_id, i - 1),
         device |-> devices_list[pool_id + 1],
         epochs |-> epochs,
         state |-> "pending"]]

\* Mutant of Submit: collection starts once the first pool has its batch.
SubmitFirstOnly ==
    /\ pc = "f_submit"
    /\ IF Len(results) < Min(1, Min(Len(pools), Len(devices_list)))
       THEN /\ jobs' = (pools[Len(results) + 1] :> JobArgs(Len(results))) @@ jobs
            /\ results' = Append(results, pools[Len(results) + 1])
            /\ UNCHANGED <<pc, all_outputs, collected>>
       ELSE /\ all_outputs' = <<>>
            /\ collected' = 0
            /\ pc' = "f_collect"
            /\ UNCHANGED <<results, jobs>>
    /\ UNCHANGED <<inputs, overtaken, handler_calls, epochs_per_simulation, k, epochs, experiment_id,
                   pools, processed_outputs, simulation, simulation_identifier,
                   proto_results, pool_state, get_calls, identifier_calls,
                   disk, error>>

\* Lines 120-128: starmap_async of the batch of the next pool; after the last
\* pool, all_outputs = [].
Submit ==
    /\ pc = "f_submit"
    /\ IF Len(results) < Min(Len(pools), Len(devices_list))
       THEN /\ jobs' = (pools[Len(results) + 1] :> JobArgs(Len(results))) @@ jobs
            /\ results' = Append(results, pools[Len(results) + 1])
            /\ UNCHANGED <<pc, all_outputs, collected>>
       ELSE /\ all_outputs' = <<>>
            /\ collected' = 0
            /\ pc' = "f_collect"
            /\ UNCHANGED <<results, jobs>>
    /\ UNCHANGED <<inputs, overtaken, handler_calls, epochs_per_simulation, k, epochs, experiment_id,
                   pools, processed_outputs, simulation, simulation_identifier,
                   proto_results, pool_state, get_calls, identifier_calls, disk, error>>

\* Line 133, the call: result.get() of the next pool starts to wait; after the
\* last pool the loop ends.
GetCall ==
    /\ pc = "f_collect"
    /\ IF collected < Min(Len(pools), Len(results))
       THEN /\ get_calls' = [get_calls EXCEPT ![results[collected + 1]] = @ + 1]
            /\ pc' = "f_get"
       ELSE /\ pc' = "f_process"
            /\ UNCHANGED get_calls
    /\ UNCHANGED <<inputs, overtaken, handler_calls, epochs_per_simulation, k, epochs, experiment_id,
                   full_locals, simulation, simulation_identifier,
                   proto_results, pool_state, jobs, identifier_calls,
                   disk, error>>

\* Mutant of Ready: the result counts as ready once one job has finished.
ReadyAny(id) == \E i \in DOMAIN jobs[id] : jobs[id][i].state # "pending"

\* The async result is ready when every job of its batch has finished.
Ready(id) == \A i \in DOMAIN jobs[id] : jobs[id][i].state # "pending"

\* A job of the batch raised.
FailedJobIn(id) == \E i \in DOMAIN jobs[id] : jobs[id][i].state = "failed"

\* Mutant of BatchValues: the values come last-submitted first.
BatchValuesReversed(id) ==
    [i \in DOMAIN jobs[id] |-> JobResult(jobs[id][Len(jobs[id]) + 1 - i])]

\* The values of a ready batch, in the order of its argument tuples.
BatchValues(id) == [i \in DOMAIN jobs[id] |-> JobResult(jobs[id][i])]

\* Mutant of GetReturn: the exception of a job is swallowed and the batch is
\* taken as retrieved.
GetReturnSwallow ==
    /\ pc = "f_get"
    /\ Ready(results[collected + 1])
    /\ all_outputs' = all_outputs \o BatchValues(results[collected + 1])
    /\ pc' = "f_close"
    /\ UNCHANGED <<inputs, overtaken, handler_calls, epochs_per_simulation, k, epochs, experiment_id,
                   pools, results, collected, processed_outputs, simulation,
                   simulation_identifier, proto_results, pool_vars,
                   identifier_calls, disk, error>>

\* Mutant of GetReturn: the result is taken without waiting for the batch.
GetReturnEarly ==
    /\ pc = "f_get"
    /\ IF FailedJobIn(results[collected + 1])
       THEN /\ pc' = "raised"
            /\ error' = "job"
            /\ UNCHANGED all_outputs
       ELSE /\ all_outputs' = all_outputs \o BatchValues(results[collected + 1])
            /\ pc' = "f_close"
            /\ UNCHANGED error
    /\ UNCHANGED <<inputs, overtaken, handler_calls, epochs_per_simulation, k, epochs, experiment_id,
                   pools, results, collected, processed_outputs, simulation,
                   simulation_identifier, proto_results, pool_vars,
                   identifier_calls, disk>>

\* Mutant of GetReturn: the exception of a job of any batch of the
\* configuration is raised as soon as that job has failed.
GetReturnAnyFailure ==
    /\ pc = "f_get"
    /\ IF \E n \in DOMAIN results : FailedJobIn(results[n])
       THEN /\ pc' = "raised"
            /\ error' = "job"
            /\ UNCHANGED all_outputs
       ELSE /\ Ready(results[collected + 1])
            /\ all_outputs' = all_outputs \o BatchValues(results[collected + 1])
            /\ pc' = "f_close"
            /\ UNCHANGED error
    /\ UNCHANGED <<inputs, overtaken, handler_calls, epochs_per_simulation, k, epochs, experiment_id,
                   pools, results, collected, processed_outputs, simulation,
                   simulation_identifier, proto_results, pool_vars,
                   identifier_calls, disk>>

\* Line 133, the return: get() returns the batch's values, which are added to
\* all_outputs, or re-raises the exception of a job that raised.
GetReturn ==
    /\ pc = "f_get"
    /\ Ready(results[collected + 1])
    /\ IF FailedJobIn(results[collected + 1])
       THEN /\ pc' = "raised"
            /\ error' = "job"
            /\ UNCHANGED all_outputs
       ELSE /\ all_outputs' = all_outputs \o BatchValues(results[collected + 1])
            /\ pc' = "f_close"
            /\ UNCHANGED error
    /\ UNCHANGED <<inputs, overtaken, handler_calls, epochs_per_simulation, k, epochs, experiment_id,
                   pools, results, collected, processed_outputs, simulation,
                   simulation_identifier, proto_results, pool_vars,
                   identifier_calls, disk>>

\* Line 134: pool.close().
PoolClose ==
    /\ pc = "f_close"
    /\ pool_state' = [pool_state EXCEPT ![pools[collected + 1]] = "closed"]
    /\ pc' = "f_join"
    /\ UNCHANGED <<inputs, overtaken, handler_calls, epochs_per_simulation, k, epochs, experiment_id,
                   full_locals, simulation, simulation_identifier,
                   proto_results, jobs, get_calls, identifier_calls,
                   disk, error>>

\* Mutant of PoolJoin: the pool is closed but never joined.
PoolJoinSkipped ==
    /\ pc = "f_join"
    /\ collected' = collected + 1
    /\ pc' = "f_collect"
    /\ UNCHANGED <<inputs, overtaken, handler_calls, epochs_per_simulation, k, epochs, experiment_id,
                   pools, results, all_outputs, processed_outputs, simulation,
                   simulation_identifier, proto_results, pool_vars,
                   identifier_calls, disk, error>>

\* Line 135: pool.join(); the loop moves to the next pool.
PoolJoin ==
    /\ pc = "f_join"
    /\ pool_state' = [pool_state EXCEPT ![pools[collected + 1]] = "joined"]
    /\ collected' = collected + 1
    /\ pc' = "f_collect"
    /\ UNCHANGED <<inputs, overtaken, handler_calls, epochs_per_simulation, k, epochs, experiment_id,
                   pools, results, all_outputs, processed_outputs, simulation,
                   simulation_identifier, proto_results, jobs, get_calls, identifier_calls, disk, error>>

\* Lines 140-144: one retrieved triple, handled.
ProcessedOutput(output) == <<handle_simulation_output(output[1]), output[2], output[3]>>

\* Mutant of Process: the handled histories are paired with the seeds and
\* devices read from the other end of the list.
ProcessOutOfStep ==
    /\ pc = "f_process"
    /\ processed_outputs' =
           [i \in DOMAIN all_outputs |->
               <<handle_simulation_output(
                     all_outputs[Len(all_outputs) + 1 - i][1]),
                 all_outputs[i][2], all_outputs[i][3]>>]
    /\ pc' = "f_identify"
    /\ handler_calls' = handler_calls + Len(all_outputs)
    /\ UNCHANGED <<inputs, overtaken, epochs_per_simulation, k, epochs, experiment_id,
                   pools, results, collected, all_outputs, simulation,
                   simulation_identifier, proto_results, pool_vars,
                   identifier_calls, disk, error>>

\* Lines 138-144: processed_outputs holds the handled output of every triple.
Process ==
    /\ pc = "f_process"
    /\ processed_outputs' =
           [i \in DOMAIN all_outputs |-> ProcessedOutput(all_outputs[i])]
    /\ pc' = "f_identify"
    /\ handler_calls' = handler_calls + Len(all_outputs)
    /\ UNCHANGED <<inputs, overtaken, epochs_per_simulation, k, epochs, experiment_id,
                   pools, results, collected, all_outputs, simulation,
                   simulation_identifier, proto_results, pool_vars,
                   identifier_calls, disk, error>>

\* The seed and device of the instance full_run builds for the identifier.
RepresentativeSeed == 0
RepresentativeDevice == "cpu"

\* Mutant of Identify: the new instance is run before its identifier is taken.
IdentifyAfterRun(ok) ==
    /\ pc = "f_identify"
    /\ IF ~ok
       THEN /\ pc' = "raised"
            /\ error' = "factory"
            /\ UNCHANGED <<simulation, simulation_identifier, identifier_calls>>
       ELSE /\ simulation' =
                   [Instance(simulation_factory, RepresentativeSeed,
                             RepresentativeDevice) EXCEPT !.ran = TRUE]
            /\ identifier_calls' = Append(identifier_calls, <<k, simulation'>>)
            /\ IF IdentifierRaises(simulation')
               THEN /\ pc' = "raised"
                    /\ error' = "identifier"
                    /\ UNCHANGED simulation_identifier
               ELSE /\ simulation_identifier' =
                           construct_simulation_identifier(simulation')
                    /\ pc' = "f_save"
                    /\ UNCHANGED error
    /\ UNCHANGED <<inputs, overtaken, handler_calls, epochs_per_simulation, k, epochs, experiment_id,
                   full_locals, proto_results, pool_vars, disk>>

\* Lines 147-148: the identifier of a new instance of the configuration; the
\* factory call or the identifier derivation may raise.
Identify(ok) ==
    /\ pc = "f_identify"
    /\ IF ~ok
       THEN /\ pc' = "raised"
            /\ error' = "factory"
            /\ UNCHANGED <<simulation, simulation_identifier, identifier_calls>>
       ELSE /\ simulation' = Instance(simulation_factory, RepresentativeSeed,
                                      RepresentativeDevice)
            /\ identifier_calls' = Append(identifier_calls, <<k, simulation'>>)
            /\ IF IdentifierRaises(simulation')
               THEN /\ pc' = "raised"
                    /\ error' = "identifier"
                    /\ UNCHANGED simulation_identifier
               ELSE /\ simulation_identifier' =
                           construct_simulation_identifier(simulation')
                    /\ pc' = "f_save"
                    /\ UNCHANGED error
    /\ UNCHANGED <<inputs, overtaken, handler_calls, epochs_per_simulation, k, epochs, experiment_id,
                   full_locals, proto_results, pool_vars, disk>>

\* Lines 150-151: _outputs_prefix + self.name + '/experiment_' + str(id).
FilePath(id) == <<"./outputs/", "name", "/experiment_", IntRepr[id + 1]>>

\* Lines 152-153: save_to_disk, which may raise; then experiment_id += 1.
Save(ok) ==
    /\ pc = "f_save"
    /\ IF ok
       THEN /\ disk' = Append(disk, <<FilePath(experiment_id),
                                      <<simulation_identifier, processed_outputs>>>>)
            /\ experiment_id' = experiment_id + 1
            /\ pc' = "f_loop"
            /\ UNCHANGED error
       ELSE /\ pc' = "raised"
            /\ error' = "save"
            /\ UNCHANGED <<disk, experiment_id>>
    /\ UNCHANGED <<inputs, overtaken, handler_calls, epochs_per_simulation, k, epochs, full_locals,
                   simulation, simulation_identifier, proto_results, pool_vars,
                   identifier_calls>>

\* ---------------------------------------------------------- prototype_run
\* Lines 84-87: normalise the epochs argument, results = {}.
ProtoStart ==
    /\ mode = "prototype" /\ pc = "start"
    /\ epochs_per_simulation' = NormalizedEpochs(epochs_per_simulation)
    /\ proto_results' = <<>>
    /\ pc' = "p_loop"
    /\ UNCHANGED <<inputs, overtaken, handler_calls, k, epochs, experiment_id, full_locals, simulation,
                   simulation_identifier, pool_vars, identifier_calls, disk,
                   error>>

\* Lines 88-89: the next (simulation_factory, epochs) of the zip, or line 97.
ProtoLoop ==
    /\ pc = "p_loop"
    /\ IF ZipHasNext(k)
       THEN /\ k' = k + 1
            /\ epochs' = CycleAt(k)
            /\ pc' = "p_construct"
       ELSE /\ pc' = "returned"
            /\ UNCHANGED <<k, epochs>>
    /\ UNCHANGED <<inputs, overtaken, handler_calls, epochs_per_simulation, experiment_id, full_locals,
                   simulation, simulation_identifier, proto_results, pool_vars,
                   identifier_calls, disk, error>>

\* Line 90: simulation = simulation_factory(seed, device), which may raise.
ProtoConstruct(ok) ==
    /\ pc = "p_construct"
    /\ IF ok
       THEN /\ simulation' = Instance(simulation_factory, seed, device)
            /\ pc' = "p_run"
            /\ UNCHANGED error
       ELSE /\ pc' = "raised"
            /\ error' = "factory"
            /\ UNCHANGED simulation
    /\ UNCHANGED <<inputs, overtaken, handler_calls, epochs_per_simulation, k, epochs, experiment_id,
                   full_locals, simulation_identifier, proto_results,
                   pool_vars, identifier_calls, disk>>

\* Line 91: simulation.run(epochs), which may raise.
ProtoRun(ok) ==
    /\ pc = "p_run"
    /\ IF ok
       THEN /\ simulation' = [simulation EXCEPT !.ran = TRUE]
            /\ pc' = "p_identify"
            /\ UNCHANGED error
       ELSE /\ pc' = "raised"
            /\ error' = "run"
            /\ UNCHANGED simulation
    /\ UNCHANGED <<inputs, overtaken, handler_calls, epochs_per_simulation, k, epochs, experiment_id,
                   full_locals, simulation_identifier, proto_results,
                   pool_vars, identifier_calls, disk>>

\* results[key] = value of a dict: a new key is added, an old one overwritten.
DictSet(dict, key, value) == (key :> value) @@ dict

\* Mutant of ProtoIdentify: the entry is also written to disk.
ProtoIdentifyPersist ==
    /\ pc = "p_identify"
    /\ ~IdentifierRaises(simulation)
    /\ identifier_calls' = Append(identifier_calls, <<k, simulation>>)
    /\ simulation_identifier' = construct_simulation_identifier(simulation)
    /\ proto_results' =
           DictSet(proto_results, simulation_identifier',
                   handle_simulation_output(
                       History(simulation.factory, simulation.seed,
                               simulation.device, epochs)))
    /\ disk' = Append(disk, <<FilePath(k - 1),
                              <<simulation_identifier', <<>>>>>>)
    /\ pc' = "p_loop"
    /\ handler_calls' = handler_calls + 1
    /\ UNCHANGED <<inputs, overtaken, epochs_per_simulation, k, epochs, experiment_id,
                   full_locals, simulation, pool_vars, error>>

\* Lines 92-95: the identifier of the instance that was run, the handled
\* history, and the entry of the results dictionary.
ProtoIdentify ==
    /\ pc = "p_identify"
    /\ identifier_calls' = Append(identifier_calls, <<k, simulation>>)
    /\ IF IdentifierRaises(simulation)
       THEN /\ pc' = "raised"
            /\ error' = "identifier"
            /\ UNCHANGED <<simulation_identifier, proto_results>>
       ELSE /\ simulation_identifier' = construct_simulation_identifier(simulation)
            /\ proto_results' =
                   DictSet(proto_results, simulation_identifier',
                           handle_simulation_output(
                               History(simulation.factory, simulation.seed,
                                       simulation.device, epochs)))
            /\ pc' = "p_loop"
            /\ UNCHANGED error
    /\ handler_calls' = IF IdentifierRaises(simulation) THEN handler_calls
                        ELSE handler_calls + 1
    /\ UNCHANGED <<inputs, overtaken, epochs_per_simulation, k, epochs, experiment_id,
                   full_locals, simulation, pool_vars, disk>>

\* ------------------------------------------------------- the specification
Next ==
    \/ FullStart
    \/ FullLoop
    \/ CreatePool
    \/ Submit
    \/ GetCall
    \/ GetReturn
    \/ PoolClose
    \/ PoolJoin
    \/ Process
    \/ \E ok \in BOOLEAN : Identify(ok)
    \/ \E ok \in BOOLEAN : Save(ok)
    \/ \E id \in DOMAIN jobs : \E i \in DOMAIN jobs[id] : \E ok \in BOOLEAN :
           JobFinish(id, i, ok)
    \/ ProtoStart
    \/ ProtoLoop
    \/ \E ok \in BOOLEAN : ProtoConstruct(ok)
    \/ \E ok \in BOOLEAN : ProtoRun(ok)
    \/ ProtoIdentify

Spec == Init /\ [][Next]_vars

\* ------------------------------------------------------------ the claims
\* Pool ids are <<c, p>>: c the configuration (from 1, in sweep order), p the
\* position of the device in devices_list (from 0).
R == n_runs_per_device
D == Len(devices_list)

BatchesOf(c) == {id \in DOMAIN jobs : id[1] = c}
PoolsOf(c) == {id \in DOMAIN pool_state : id[1] = c}

\* The jobs submitted for configuration c, as <<pool id, index in the batch>>.
JobsOf(c) == UNION {{<<id, i>> : i \in DOMAIN jobs[id]} : id \in BatchesOf(c)}

\* Every batch of configuration c has been handed to its pool.
SubmissionDone(c) == c < k \/ (c = k /\ pc \notin {"f_pools", "f_submit"})

\* C1: the jobs of a configuration use each seed of 0 .. R*D - 1 exactly once,
\* and the job with seed s runs on the device at position s div R of
\* devices_list (position p gets the seeds p*R .. p*R + R - 1), also when a
\* device occurs more than once in devices_list.
C1_SeedCoverage ==
    \A c \in 1..k :
        /\ \A id \in BatchesOf(c) : \A i \in DOMAIN jobs[id] :
              LET job == jobs[id][i] IN
              /\ job.seed \in (id[2] * R)..(id[2] * R + R - 1)
              /\ job.seed \div R = id[2]
              /\ job.device = devices_list[(job.seed \div R) + 1]
        /\ (mode = "full" /\ SubmissionDone(c)) =>
              \A s \in 0..(R * D - 1) :
                  Cardinality({j \in JobsOf(c) : jobs[j[1]][j[2]].seed = s}) = 1
        /\ \A j \in JobsOf(c) : jobs[j[1]][j[2]].seed \in 0..(R * D - 1)

\* Reached: two positions holding the same device, two runs each, all submitted.
C1_Witness ==
    /\ mode = "full" /\ pc = "f_collect"
    /\ R = 2 /\ D = 2 /\ devices_list[1] = devices_list[2]
    /\ Cardinality(JobsOf(k)) = 4

\* The identifier of the instance a job builds and runs.
JobIdentifier(job) ==
    construct_simulation_identifier(Instance(job.factory, job.seed, job.device))

\* The identifier of the representative instance of a factory.
RepresentativeIdentifier(f) ==
    construct_simulation_identifier(
        Instance(f, RepresentativeSeed, RepresentativeDevice))

\* C2: the identifier does not depend on seed and device: the identifier of
\* every instance a job runs equals the identifier of the representative
\* instance (seed 0, cpu) of the same configuration.
C2_IdentifierIndependentOfSeedAndDevice ==
    \A id \in DOMAIN jobs : \A i \in DOMAIN jobs[id] :
        ~IdentifierRaises(Instance(jobs[id][i].factory, 0, "cpu")) =>
            JobIdentifier(jobs[id][i]) = RepresentativeIdentifier(jobs[id][i].factory)

\* C3: a full_run that returns has called save_to_disk once per configuration
\* of the sweep, in sweep order, the call for the configuration at position n
\* (from 0) with the path of experiment id n.
C3_OneBundlePerConfiguration ==
    (mode = "full" /\ pc = "returned") =>
        /\ Len(disk) = Len(simulation_factories)
        /\ \A n \in 1..Len(disk) :
              /\ disk[n][1] = FilePath(n - 1)
              /\ disk[n][2][1] = RepresentativeIdentifier(simulation_factories[n])

\* C4: the mapping prototype_run returns has as many entries as the sweep has
\* configurations.
C4_PrototypeResultSize ==
    (mode = "prototype" /\ pc = "returned") =>
        Cardinality(DOMAIN proto_results) = Len(simulation_factories)

\* The epoch count of the configuration at position n (from 0): the integer
\* argument, or the item at n mod L of the list argument of length L.
ExpectedEpochs(n) ==
    IF epochs_argument[1] = "int"
    THEN epochs_argument[2]
    ELSE epochs_argument[2][(n % Len(epochs_argument[2])) + 1]

C5_WitnessLongerList ==
    /\ mode = "prototype" /\ pc = "returned"
    /\ epochs_argument = <<"list", <<5, 2>>>>
    /\ Len(simulation_factories) = 1 /\ k = 1

\* C6: when full_run raises while processing configuration c (a job raised,
\* or the identifier could not be derived), the bundles persisted are exactly
\* those of the configurations before c, nothing is persisted for c, no job
\* of a later configuration exists, no result is waited for twice and nothing
\* runs afterwards; a configuration one of whose jobs raised is never
\* persisted and the pool of that job is never closed as if it had succeeded.
C6_FailureAborts ==
    /\ \A id \in DOMAIN jobs :
          FailedJobIn(id) => (Len(disk) < id[1] /\ pool_state[id] = "open"
                              /\ (get_calls[id] > 0 /\ pc # "f_get" => pc = "raised"))
    /\ (mode = "full" /\ pc = "raised") =>
          /\ Len(disk) = k - 1
          /\ experiment_id = k - 1
          /\ \A n \in 1..Len(disk) : disk[n][1] = FilePath(n - 1)
          /\ \A id \in DOMAIN jobs : id[1] <= k
          /\ \A id \in DOMAIN get_calls : get_calls[id] <= 1
          /\ ~ENABLED Next

\* Reached: a job of the second configuration raised, and full_run raised with
\* the first configuration's bundle persisted.
C6_Witness ==
    /\ mode = "full" /\ pc = "raised" /\ error = "job"
    /\ k = 2 /\ Len(disk) = 1

\* Reached: the identifier of the second configuration could not be derived.
C6_WitnessIdentifier ==
    /\ mode = "full" /\ pc = "raised" /\ error = "identifier"
    /\ k = 2 /\ Len(disk) = 1

\* C7: every pool of a configuration whose bundle was persisted is closed and
\* joined, from the moment the bundle is persisted and so also after full_run
\* returned or raised.
C7_CompletedPoolsClosed ==
    \A id \in DOMAIN pool_state : id[1] <= Len(disk) => pool_state[id] = "joined"

\* Reached: full_run raised in the second configuration after the first, with
\* two pools, was persisted.
C7_Witness ==
    /\ mode = "full" /\ pc = "raised" /\ Len(disk) = 1
    /\ Cardinality(PoolsOf(1)) = 2
    /\ \A id \in PoolsOf(1) : pool_state[id] = "joined"

\* C8: prototype_run persists nothing, creates no pool, submits no job and
\* never waits for an async result.
C8_PrototypeNoPersistence ==
    mode = "prototype" =>
        /\ Len(disk) = 0
        /\ DOMAIN pool_state = {}
        /\ DOMAIN jobs = {}
        /\ Len(pools) = 0 /\ Len(results) = 0
        /\ pc \notin {"f_get", "f_pools", "f_submit", "f_collect", "f_save"}

\* Reached: prototype_run returned a mapping after running two configurations.
C8_Witness ==
    /\ mode = "prototype" /\ pc = "returned" /\ k = 2
    /\ Cardinality(DOMAIN proto_results) = 2

\* C9: for each configuration, a job exists only once every device has its
\* pool, and a result is waited for only once every pool has its batch: pools,
\* then submissions, then collection.
C9_TwoPhaseOrder ==
    \A c \in 1..k :
        /\ BatchesOf(c) # {} => \A p \in 0..(D - 1) : <<c, p>> \in DOMAIN pool_state
        /\ (\E id \in PoolsOf(c) : get_calls[id] > 0 \/ pool_state[id] # "open") =>
              \A p \in 0..(D - 1) : <<c, p>> \in DOMAIN jobs
        /\ (c = k /\ pc = "f_pools") => BatchesOf(c) = {}
        /\ (c = k /\ pc = "f_submit") => \A id \in PoolsOf(c) : get_calls[id] = 0

\* Reached: full_run waits for the first of two devices, both batches submitted.
C9_Witness ==
    /\ mode = "full" /\ pc = "f_get" /\ D = 2 /\ R >= 1
    /\ collected = 0
    /\ Cardinality(BatchesOf(k)) = 2

AllDone(id) == \A i \in DOMAIN jobs[id] : jobs[id][i].state = "done"

\* C10: within a configuration the result of the device at position p + 1 is
\* waited for only after every result of position p was retrieved and its pool
\* closed and joined; each result is waited for at most once, exactly once in
\* a persisted configuration; a pool is closed only after all R values of its
\* batch were retrieved.
C10_DeviceOrderedBarriers ==
    \A id \in DOMAIN pool_state :
        /\ get_calls[id] <= 1
        /\ (get_calls[id] > 0 /\ id[2] > 0) =>
              /\ pool_state[<<id[1], id[2] - 1>>] = "joined"
              /\ AllDone(<<id[1], id[2] - 1>>)
              /\ get_calls[<<id[1], id[2] - 1>>] = 1
        /\ id[1] <= Len(disk) => get_calls[id] = 1
        /\ pool_state[id] # "open" =>
              /\ get_calls[id] = 1
              /\ AllDone(id)
              /\ Len(jobs[id]) = R
              /\ id[1] = k /\ pc \notin {"f_pools", "f_submit"} =>
                    /\ Len(all_outputs) >= (id[2] + 1) * R
                    /\ \A i \in 1..R :
                          all_outputs[id[2] * R + i] = JobResult(jobs[id][i])

\* Reached: full_run waits for the second device after the first was joined.
C10_Witness ==
    /\ mode = "full" /\ pc = "f_get" /\ collected = 1 /\ R = 2
    /\ pool_state[<<k, 0>>] = "joined"
    /\ \E i \in DOMAIN jobs[<<k, 1>>] : jobs[<<k, 1>>][i].state = "pending"

\* The seeds of a list of (output, seed, device) triples, in list order.
SeedsOf(outputs) == [j \in DOMAIN outputs |-> outputs[j][2]]

\* The list 0, 1, ..., n - 1.
Ascending(n) == [j \in 1..n |-> j - 1]

\* C11: whatever the order in which the workers finish, the list persisted for
\* a configuration is ordered by device position and, within a device, by
\* submission order: its seeds read 0, 1, ..., R*D - 1, and the list retrieved
\* so far is the beginning of that list.
C11_PersistedOrder ==
    /\ \A n \in 1..Len(disk) :
          /\ SeedsOf(disk[n][2][2]) = Ascending(R * D)
          /\ \A j \in 1..(R * D) :
                disk[n][2][2][j][3] = devices_list[((j - 1) \div R) + 1]
    /\ pc \in {"f_collect", "f_get", "f_close", "f_join", "f_process"} =>
          SeedsOf(all_outputs) = Ascending(Len(all_outputs))
    /\ pc \in {"f_identify", "f_save"} =>
          SeedsOf(processed_outputs) = Ascending(R * D)

\* Reached: a job finished before one submitted before it, and the bundle of
\* the only configuration, two runs on each of two devices, was persisted.
C11_Witness ==
    /\ mode = "full" /\ overtaken
    /\ Len(simulation_factories) = 1 /\ Len(disk) = 1
    /\ R = 2 /\ D = 2
    /\ SeedsOf(disk[1][2][2]) = <<0, 1, 2, 3>>

\* C12: when a job raised and full_run raised for it, every pool created for
\* that configuration has been closed and joined.
C12_PoolsClosedOnFailure ==
    (mode = "full" /\ pc = "raised" /\ error = "job") =>
        \A id \in PoolsOf(k) : pool_state[id] = "joined"

OpenPools == {id \in DOMAIN pool_state : pool_state[id] = "open"}

\* The factory and epoch count of the configuration at position c (from 1).
ConfigurationOf(c) ==
    <<simulation_factories[c], ExpectedEpochs(c - 1)>>

\* C13: every open pool belongs to the configuration being processed, there
\* are at most len(devices_list) of them, a pool is created only when no pool
\* of an earlier configuration is open, and the batch of a pool holds jobs of
\* the pool's own configuration only.
C13_PoolsOfCurrentConfiguration ==
    /\ \A id \in OpenPools : id[1] = k
    /\ Cardinality(OpenPools) <= D
    /\ \A id \in DOMAIN pool_state : id[1] < k => pool_state[id] = "joined"
    /\ \A id \in DOMAIN jobs : \A i \in DOMAIN jobs[id] :
          <<jobs[id][i].factory, jobs[id][i].epochs>> = ConfigurationOf(id[1])
    /\ Len(pools) <= D
    /\ \A p \in 1..Len(pools) : pools[p] = <<k, p - 1>>

\* Reached: the two pools of the second configuration are open, those of the
\* first are joined, and the two configurations differ.
C13_Witness ==
    /\ mode = "full" /\ k = 2 /\ D = 2 /\ R >= 1
    /\ pc = "f_get"
    /\ OpenPools = {<<2, 0>>, <<2, 1>>}
    /\ ConfigurationOf(1) # ConfigurationOf(2)
    /\ pool_state[<<1, 0>>] = "joined" /\ pool_state[<<1, 1>>] = "joined"

\* The instance prototype_run holds after running configuration c.
RunInstance(c) ==
    [Instance(simulation_factories[c], seed, device) EXCEPT !.ran = TRUE]

\* The instance full_run builds for the identifier of configuration c.
Representative(c) ==
    Instance(simulation_factories[c], RepresentativeSeed, RepresentativeDevice)

\* The identifier is derived at most once per configuration.
AtMostOncePerConfiguration ==
    \A i, j \in DOMAIN identifier_calls :
        identifier_calls[i][1] = identifier_calls[j][1] => i = j

\* C14 (as stated): in prototype_run and in full_run the identifier of a
\* configuration is derived at most once, always from an instance built with
\* seed 0 and the cpu device on which run was never called.
C14_AlwaysFreshRepresentative ==
    /\ AtMostOncePerConfiguration
    /\ \A i \in DOMAIN identifier_calls :
          /\ ~identifier_calls[i][2].ran
          /\ identifier_calls[i][2].seed = RepresentativeSeed
          /\ identifier_calls[i][2].device = RepresentativeDevice

\* C14 (amended): the identifier of a configuration is derived at most once per
\* invocation; full_run derives it from a new instance built with seed 0 and
\* the cpu device on which run was never called; prototype_run derives it from
\* the instance it built with the caller's seed and device, after running it.
C14_IdentifierSource ==
    /\ AtMostOncePerConfiguration
    /\ \A i \in DOMAIN identifier_calls :
          LET c == identifier_calls[i][1] IN
          /\ c = i
          /\ mode = "full" => identifier_calls[i][2] = Representative(c)
          /\ mode = "prototype" => identifier_calls[i][2] = RunInstance(c)

\* Reached: prototype_run with seed 3 on cuda:0 derived the identifiers of two
\* configurations, each from the instance it had run.
C14_Witness ==
    /\ mode = "prototype" /\ seed = 3 /\ device = "cuda:0"
    /\ Len(identifier_calls) = 2
    /\ identifier_calls[2][2].ran
    /\ identifier_calls[2][2].seed = 3

\* Reached: full_run derived the identifiers of two configurations whose jobs
\* ran on cuda devices, each from a new instance never run.
C14_WitnessFull ==
    /\ mode = "full" /\ R * D >= 2
    /\ Len(identifier_calls) = 2
    /\ ~identifier_calls[2][2].ran
    /\ \A p \in 1..D : devices_list[p] # RepresentativeDevice

\* The job whose result is at position j of the list of configuration c.
JobAt(c, j) == jobs[<<c, (j - 1) \div R>>][((j - 1) % R) + 1]

\* The configurations whose job results have been handled.
Handled ==
    IF \/ pc \in {"start", "f_pools", "f_submit", "f_collect", "f_get",
                  "f_close", "f_join", "f_process"}
       \/ (pc = "raised" /\ error = "job")
    THEN k - 1 ELSE k

\* C15: every tuple of a persisted bundle is (handler's result for the history
\* of a job, that job's seed, that job's device), the history being the one
\* recorded with that seed on that device; the tuples are those of the R*D jobs
\* submitted for the configuration, one each; and the handler was applied once
\* per job result.
C15_OutputsPairedWithOrigin ==
    mode = "full" =>
        /\ \A n \in 1..Len(disk) :
              LET outputs == disk[n][2][2] IN
              /\ Len(outputs) = R * D
              /\ \A j \in 1..Len(outputs) :
                    LET job == JobAt(n, j) IN
                    /\ outputs[j] =
                          <<handle_simulation_output(
                                History(job.factory, job.seed, job.device,
                                        job.epochs)),
                            job.seed, job.device>>
                    /\ outputs[j][1].seed = outputs[j][2]
                    /\ outputs[j][1].device = outputs[j][3]
        /\ handler_calls = R * D * (IF k = 0 THEN 0 ELSE Handled)

\* Reached: a job overtook an earlier one, two devices differ, and the bundle
\* of four results of the only configuration was persisted.
C15_Witness ==
    /\ mode = "full" /\ overtaken /\ pc = "returned"
    /\ Len(disk) = 1 /\ R = 2 /\ D = 2
    /\ devices_list[1] # devices_list[2]
    /\ handler_calls = 4
    /\ disk[1][2][2][4][1].seed = 3

\* The field names declared by a class and the classes it derives from, the
\* learning rate under its public name.
FieldNames(cls) ==
    LET simulation_fields ==
            {"seed", "device", "model_factory", "data", "n_train", "n_valid",
             "loss_function", "batch_size", "learning_rate", "simulation_name",
             "data_factory_kwargs", "model_factory_kwargs"}
    IN  CASE cls = "Simulation" -> simulation_fields
          [] cls = "NoisySimulation" -> simulation_fields \cup {"noise_level"}
          [] cls = "PartialSimulation" -> simulation_fields \cup {"warmup"}

\* The field read for a key of the identifier.
FieldOf(key) == IF key = "learning_rate" THEN "_learning_rate" ELSE key

\* The last call of construct_simulation_identifier returned.
IdentifierReturned ==
    /\ Len(identifier_calls) >= 1
    /\ ~(pc = "raised" /\ error = "identifier")

\* C16: the mapping construct_simulation_identifier returns has as keys exactly
\* the field names declared by the instance's class and its base classes, each
\* once, with learning_rate in place of _learning_rate; the value of a key is
\* the instance's value of the field, as it is when it is a number and as its
\* string form otherwise; the instance is the same after the call.
C16_IdentifierContents ==
    IdentifierReturned =>
        LET instance == identifier_calls[Len(identifier_calls)][2]
            identifier == simulation_identifier
        IN  /\ DOMAIN identifier = FieldNames(FactoryClass(instance.factory))
            /\ \A key \in DOMAIN identifier :
                  LET value == GetAttribute(instance, FieldOf(key)) IN
                  identifier[key] =
                      IF value.kind = "num" THEN value
                      ELSE [kind |-> "str", v |-> value.v]
            /\ identifier["seed"] = [kind |-> "num", v |-> IntRepr[instance.seed + 1]]
            /\ identifier["device"] = [kind |-> "str", v |-> instance.device]
            /\ pc \in {"f_save", "p_loop"} => simulation = instance

\* Reached: prototype_run derived the identifier of an instance of the derived
\* class, which redeclares batch_size and adds noise_level, built with seed 3
\* on cuda:0.
C16_Witness ==
    /\ mode = "prototype" /\ pc = "p_loop" /\ k = 2
    /\ IdentifierReturned
    /\ simulation.factory = "fB" /\ simulation.seed = 3
    /\ Cardinality(DOMAIN simulation_identifier) = 13
    /\ simulation_identifier["noise_level"].kind = "num"
    /\ simulation_identifier["device"] = [kind |-> "str", v |-> "cuda:0"]
    /\ simulation_identifier["batch_size"].v = "64"

\* A step of full_run or prototype_run itself: any step but a worker's.
OrchestratorNext ==
    \/ FullStart \/ FullLoop \/ CreatePool \/ Submit \/ GetCall \/ GetReturn
    \/ PoolClose \/ PoolJoin \/ Process
    \/ \E ok \in BOOLEAN : Identify(ok)
    \/ \E ok \in BOOLEAN : Save(ok)
    \/ ProtoStart \/ ProtoLoop
    \/ \E ok \in BOOLEAN : ProtoConstruct(ok)
    \/ \E ok \in BOOLEAN : ProtoRun(ok)
    \/ ProtoIdentify

\* The batches that hold a job not yet finished.
Unfinished ==
    {id \in DOMAIN jobs : \E i \in DOMAIN jobs[id] : jobs[id][i].state = "pending"}

\* C17 (as stated): while a job of some device has not finished, full_run has
\* not ended: it is still at, or before, that device's collection step.
C17_UnfinishedJobKeepsFullRunBlocked ==
    \A id \in Unfinished : ~Ended

\* C17 (amended): while a job of the device at position p of configuration c
\* has not finished, full_run has not returned, has persisted no bundle of c or
\* of a later configuration, has not got past the collection of position p and
\* has closed no pool of the positions p and after; once it waits for the
\* result of position p it can take no step at all; it has ended only by
\* raising the exception of a job of a position before p.
C17_UnfinishedJobHoldsFullRun ==
    \A id \in Unfinished :
        LET c == id[1]
            p == id[2]
        IN  /\ pc # "returned"
            /\ c = k
            /\ Len(disk) < c
            /\ pc \notin {"f_pools", "f_submit"} => collected <= p
            /\ \A q \in p..(D - 1) :
                  <<c, q>> \in DOMAIN pool_state => pool_state[<<c, q>>] = "open"
            /\ (pc = "f_get" /\ collected = p) => ~ENABLED OrchestratorNext
            /\ pc = "raised" =>
                  /\ error = "job"
                  /\ \E q \in 0..(p - 1) :
                        /\ FailedJobIn(<<c, q>>)
                        /\ collected = q

\* Reached: full_run waits for the result of the second device while a job of
\* that device has not finished; the first device's pool is joined.
C17_Witness ==
    /\ mode = "full" /\ pc = "f_get" /\ collected = 1
    /\ <<k, 1>> \in Unfinished
    /\ pool_state[<<k, 0>>] = "joined"
    /\ pool_state[<<k, 1>>] = "open"

\* Reached: a job of the second device has not finished and full_run raised
\* the exception of a job of the first device.
C17_WitnessRaised ==
    /\ mode = "full" /\ pc = "raised" /\ error = "job"
    /\ <<k, 1>> \in Unfinished
    /\ FailedJobIn(<<k, 0>>)

\* C18: a full_run that returns, every job having finished without raising and
\* every identifier derivation and save_to_disk call having succeeded, has
\* persisted a bundle for each configuration of the sweep and has closed and
\* joined every pool it created.
C18_ReturnedWithEverythingPersisted ==
    (mode = "full" /\ pc = "returned") =>
        /\ \A id \in DOMAIN jobs : AllDone(id)
        /\ \A id \in DOMAIN pool_state : pool_state[id] = "joined"
        /\ \A c \in 1..Len(simulation_factories) :
              \E n \in DOMAIN disk : disk[n][1] = FilePath(c - 1)

\* The batches of the current configuration at positions before p.
EarlierBatches(p) == {<<k, q>> : q \in 0..(p - 1)}

\* C19: when full_run raises the exception of a job, it does so at the
\* collection of the position p of that job's device: the batch of p has a job
\* that raised, every job of every earlier position has finished without
\* raising, and the pools of the earlier positions are closed and joined.  A
\* job of a later position that raised does not end full_run while it waits
\* for an earlier position.
C19_FailureSurfacesAtItsDevice ==
    /\ (mode = "full" /\ pc = "raised" /\ error = "job") =>
          /\ results[collected + 1] = <<k, collected>>
          /\ FailedJobIn(<<k, collected>>)
          /\ \A i \in DOMAIN jobs[<<k, collected>>] :
                jobs[<<k, collected>>][i].state # "pending"
          /\ \A id \in EarlierBatches(collected) :
                /\ AllDone(id)
                /\ pool_state[id] = "joined"
                /\ get_calls[id] = 1
    /\ (pc = "f_get" /\ <<k, collected>> \in Unfinished) => ~ENABLED GetReturn

\* Reached: full_run raised the exception of a job of the second device after
\* the first device's jobs finished and its pool was joined.
C19_Witness ==
    /\ mode = "full" /\ pc = "raised" /\ error = "job"
    /\ collected = 1 /\ R = 2
    /\ FailedJobIn(<<k, 1>>)
    /\ AllDone(<<k, 0>>)
    /\ pool_state[<<k, 0>>] = "joined"

\* Reached: a job of the second device has raised while full_run still waits
\* for the first device, a job of which has not finished.
C19_WitnessHeld ==
    /\ mode = "full" /\ pc = "f_get" /\ collected = 0
    /\ <<k, 0>> \in Unfinished
    /\ <<k, 1>> \in DOMAIN jobs
    /\ FailedJobIn(<<k, 1>>)

====
